---- MODULE Spec2Model ----
(***************************************************************************)
(* p4-lsp: the CST -> AST translator (src/ast/translator.rs), the AST     *)
(* arena (src/metadata/ast/tree.rs) and the language-server session       *)
(* (src/main.rs).                                                          *)
(*                                                                         *)
(* Strings are sequences of one-character strings, so that slicing,        *)
(* trimming, prefix tests and integer parsing are computed.  Option<T> is  *)
(* a sequence of length at most one: None == <<>>, Some(x) == <<x>>.       *)
(***************************************************************************)
EXTENDS Integers, Sequences, FiniteSets, TLC

\* ------------------------------------------------------------------ bounds
\* The longest document (in top-level statements) handed to translate.
MaxStmts == 4

None == <<>>
Some(x) == <<x>>

\* ------------------------------------------------------------ source texts
LineBit16 == <<"c", "o", "n", "s", "t", " ", "b", "i", "t", "<", "1", "6", ">", " ", "T", "Y", "P", "E", "_", "I", "P", "V", "4", " ", "=", " ", "1", "0", ";">>
LineInt == <<"c", "o", "n", "s", "t", " ", "i", "n", "t", " ", "A", " ", "=", " ", "1", ";">>
LineVarbit == <<"c", "o", "n", "s", "t", " ", "v", "a", "r", "b", "i", "t", "<", "8", ">", " ", "V", " ", "=", " ", "0", ";">>
LineIntExpr == <<"c", "o", "n", "s", "t", " ", "i", "n", "t", "<", "(", "W", ")", ">", " ", "E", " ", "=", " ", "0", ";">>
LineTypeName == <<"c", "o", "n", "s", "t", " ", "T", " ", "N", " ", "=", " ", "0", ";">>
LineBigWidth == <<"c", "o", "n", "s", "t", " ", "b", "i", "t", "<", "4", "2", "9", "4", "9", "6", "7", "2", "9", "6", ">", " ", "G", " ", "=", " ", "0", ";">>
LineInvalid == <<"@", ";">>

\* Constant declarations whose type is a base type with a width that fits.
BaseLines == {LineBit16, LineInt, LineVarbit, LineIntExpr}
\* Every top-level statement a document is written from.
Lines == BaseLines \cup {LineTypeName, LineBigWidth, LineInvalid}

RECURSIVE JoinLines(_)
JoinLines(ls) ==
    IF ls = <<>> THEN <<>>
    ELSE IF Len(ls) = 1 THEN ls[1]
    ELSE ls[1] \o <<"\n">> \o JoinLines(Tail(ls))

\* The documents: up to MaxStmts statements, one per line.
LineSeqs == UNION {[1..n -> Lines] : n \in 0..MaxStmts}

\* ------------------------------------------------- the concrete syntax tree
\* A tree_sitter::Node: kind, byte range, point range, named children and the
\* children reachable by field name.
NoFields == [type |-> None, name |-> None, value |-> None]

Leaf(kind, sb, eb, row, col0) ==
    [kind |-> kind, sb |-> sb, eb |-> eb,
     sp |-> <<row, sb - col0>>, ep |-> <<row, eb - col0>>,
     named |-> <<>>, fields |-> NoFields]

\* The maximal runs of s[lo+1..hi] between occurrences of sep, as byte ranges.
\* The first run begins at start; the separators are looked for after i.
Segs(s, sep, i, start, hi) ==
    LET seps == {k \in (i + 1)..hi : s[k] = sep}
        n == Cardinality(seps)
        Sep(j) == CHOOSE k \in seps : Cardinality({m \in seps : m < k}) = j - 1
    IN [j \in 1..(n + 1) |->
          [sb |-> IF j = 1 THEN start ELSE Sep(j - 1),
           eb |-> IF j = n + 1 THEN hi ELSE Sep(j) - 1]]

Slice(s, sb, eb) == SubSeq(s, sb + 1, eb)

Digits == {"0", "1", "2", "3", "4", "5", "6", "7", "8", "9"}

StartsWith(s, p) == Len(s) >= Len(p) /\ SubSeq(s, 1, Len(p)) = p

KwInt == <<"i", "n", "t">>
KwBit == <<"b", "i", "t">>
KwVarbit == <<"v", "a", "r", "b", "i", "t">>
KwBool == <<"b", "o", "o", "l">>
KwString == <<"s", "t", "r", "i", "n", "g">>
KwError == <<"e", "r", "r", "o", "r">>
KwMatchKind == <<"m", "a", "t", "c", "h", "_", "k", "i", "n", "d">>
KwConst == <<"c", "o", "n", "s", "t">>

\* The grammar's base_type rule: a keyword, or int/bit/varbit with a width
\* in angle brackets.
IsBaseTypeToken(tk) ==
    \/ tk \in {KwBool, KwInt, KwBit, KwString, KwVarbit, KwError, KwMatchKind}
    \/ /\ tk[Len(tk)] = ">"
       /\ \E p \in {KwInt, KwBit, KwVarbit} : StartsWith(tk, p \o <<"<">>)

\* The node of the "type" field: a type reference whose only named child is
\* the type shape (base_type with its width child, or type_name).
TypeNode(s, seg, row, col0) ==
    LET tk == Slice(s, seg.sb, seg.eb)
        lt == CHOOSE i \in 1..Len(tk) : tk[i] = "<"
        wsb == seg.sb + lt
        web == seg.eb - 1
        width == Leaf(IF \A i \in (wsb + 1)..web : s[i] \in Digits
                      THEN "integer" ELSE "expression", wsb, web, row, col0)
        shape == IF IsBaseTypeToken(tk)
                 THEN [Leaf("base_type", seg.sb, seg.eb, row, col0) EXCEPT
                         !.named = IF \E i \in 1..Len(tk) : tk[i] = "<"
                                   THEN <<width>> ELSE <<>>]
                 ELSE Leaf("type_name", seg.sb, seg.eb, row, col0)
    IN [Leaf("type_ref", seg.sb, seg.eb, row, col0) EXCEPT !.named = <<shape>>]

\* One top-level statement: `const <type> <name> = <value>;` is a
\* constant_declaration with the fields type, name and value; anything else
\* is what error recovery leaves, an ERROR node.
StatementNode(s, seg, row) ==
    LET tks == Segs(s, " ", seg.sb, seg.sb, seg.eb)
        tok(i) == Slice(s, tks[i].sb, tks[i].eb)
        isConst == /\ Len(tks) = 5
                   /\ tok(1) = KwConst
                   /\ tok(4) = <<"=">>
                   /\ tks[5].eb - tks[5].sb >= 2
                   /\ s[seg.eb] = ";"
                   /\ \A i \in {2, 3} : tks[i].eb > tks[i].sb
        ty == TypeNode(s, tks[2], row, seg.sb)
        nm == Leaf("name", tks[3].sb, tks[3].eb, row, seg.sb)
        val == Leaf("expression", tks[5].sb, tks[5].eb - 1, row, seg.sb)
    IN IF isConst
       THEN [Leaf("constant_declaration", seg.sb, seg.eb, row, seg.sb) EXCEPT
               !.named = <<ty, nm, val>>,
               !.fields = [type |-> Some(ty), name |-> Some(nm), value |-> Some(val)]]
       ELSE Leaf("ERROR", seg.sb, seg.eb, row, seg.sb)

RECURSIVE StatementNodes(_, _, _)
StatementNodes(s, segs, row) ==
    IF segs = <<>> THEN <<>>
    ELSE (IF segs[1].eb > segs[1].sb
          THEN <<StatementNode(s, segs[1], row)>> ELSE <<>>)
         \o StatementNodes(s, Tail(segs), row + 1)

\* Parser::parse(text, None): the syntax tree of a text, from scratch.
Parse(s) ==
    LET segs == Segs(s, "\n", 0, 0, Len(s))
        last == segs[Len(segs)]
    IN [kind |-> "source_file", sb |-> 0, eb |-> Len(s),
        sp |-> <<0, 0>>, ep |-> <<Len(segs) - 1, last.eb - last.sb>>,
        named |-> StatementNodes(s, segs, 0), fields |-> NoFields]

\* tree_sitter::Node::range()
range(node) == [start_byte |-> node.sb, end_byte |-> node.eb,
                start_point |-> node.sp, end_point |-> node.ep]
named_child(node, i) == IF i + 1 <= Len(node.named) THEN Some(node.named[i + 1]) ELSE None
child_by_field_name(node, f) == node.fields[f]

\* ------------------------------------------------------------------- utils
get_node_text(node, source_code) == Slice(source_code, node.sb, node.eb)

ts_range_to_lsp_range(r) ==
    [start |-> [line |-> r.start_point[1], character |-> r.start_point[2]],
     end |-> [line |-> r.end_point[1], character |-> r.end_point[2]]]

\* ------------------------------------------------------------ the AST arena
\* tree.rs: BaseType, Type and NodeKind.  A kind is [tag, ty]; ty is the
\* payload of NodeKind::Type and NoType for every other kind.
BaseType(tag, size) == [tag |-> tag, size |-> size]
NoBase == BaseType("-", None)
TypeBase(b) == [tag |-> "Base", base |-> b]
NoType == [tag |-> "-", base |-> NoBase]
NodeKind(tag) == [tag |-> tag, ty |-> NoType]
NodeKindType(t) == [tag |-> "Type", ty |-> t]

SCOPE_NODES == {NodeKind("Root"), NodeKind("ParserDec"), NodeKind("Body")}
is_scope_node_without_body(kind) == kind \in SCOPE_NODES \ {NodeKind("Body")}
is_scope_node(kind) == kind \in SCOPE_NODES

\* Node::new / the Node literals of the translator.
Node(kind, syntax_node, source_code) ==
    [kind |-> kind,
     range |-> ts_range_to_lsp_range(range(syntax_node)),
     content |-> get_node_text(syntax_node, source_code)]

\* indextree: Arena::new_node appends a detached node (its id is its index),
\* NodeId::append links a node as the last child of another.
new_node(arena, data) ==
    Append(arena, [data |-> data, parent |-> 0, children |-> <<>>])
append(arena, parent_id, child_id) ==
    [arena EXCEPT ![parent_id].children = Append(@, child_id),
                  ![child_id].parent = parent_id]

\* --------------------------------------------------------- the translator
IsSpace(c) == c \in {" ", "\n", "\t"}
RECURSIVE TrimStart(_)
TrimStart(s) == IF s # <<>> /\ IsSpace(s[1]) THEN TrimStart(Tail(s)) ELSE s
RECURSIVE TrimEnd(_)
TrimEnd(s) ==
    IF s # <<>> /\ IsSpace(s[Len(s)]) THEN TrimEnd(SubSeq(s, 1, Len(s) - 1)) ELSE s
\* str::trim
Trim(s) == TrimEnd(TrimStart(s))

DigitVal(c) == CHOOSE v \in 0..9 : <<"0", "1", "2", "3", "4", "5", "6", "7", "8", "9">>[v + 1] = c
RECURSIVE DecVal(_)
DecVal(s) == IF s = <<>> THEN 0 ELSE 10 * DecVal(SubSeq(s, 1, Len(s) - 1)) + DigitVal(s[Len(s)])
RECURSIVE StripZeros(_)
StripZeros(s) == IF Len(s) > 1 /\ s[1] = "0" THEN StripZeros(Tail(s)) ELSE s
\* Decimal digit strings of equal length, compared as numbers.
RECURSIVE DigitsLeq(_, _)
DigitsLeq(a, b) ==
    IF a = <<>> THEN TRUE
    ELSE IF a[1] = b[1] THEN DigitsLeq(Tail(a), Tail(b))
    ELSE DigitVal(a[1]) < DigitVal(b[1])
U32MaxDigits == <<"4", "2", "9", "4", "9", "6", "7", "2", "9", "5">>
\* str::parse::<u32>: an optional plus sign, then decimal digits whose value
\* is at most u32::MAX; Some(value), or None for Err.
parse_u32(s) ==
    LET ds == IF s # <<>> /\ s[1] = "+" THEN Tail(s) ELSE s
        sig == StripZeros(ds)
    IN IF /\ ds # <<>>
          /\ \A i \in 1..Len(ds) : ds[i] \in Digits
          /\ \/ Len(sig) < Len(U32MaxDigits)
             \/ Len(sig) = Len(U32MaxDigits) /\ DigitsLeq(sig, U32MaxDigits)
       THEN Some(DecVal(sig)) ELSE None

Ok(b) == [st |-> "Ok", val |-> b]
Err == [st |-> "Err", val |-> NoBase]
PanicBase == [st |-> "Panic", val |-> NoBase]

\* parse_base_type without the keyword arm for `int`: a bare int takes the
\* sized classification with no width.
parse_base_type_unsized_int(node, source_code) ==
    LET text == Trim(get_node_text(node, source_code))
        child == named_child(node, 0)
        isInt == child # None /\ child[1].kind = "integer"
        parsed == parse_u32(get_node_text(child[1], source_code))
        size == IF isInt THEN Some(parsed[1]) ELSE None
    IN IF text = KwBool THEN Ok(BaseType("Bool", None))
       ELSE IF text = KwBit THEN Ok(BaseType("Bit", None))
       ELSE IF text = KwString THEN Ok(BaseType("String", None))
       ELSE IF text = KwVarbit THEN Ok(BaseType("Varbit", None))
       ELSE IF text = KwError THEN Ok(BaseType("Error", None))
       ELSE IF text = KwMatchKind THEN Ok(BaseType("MatchKind", None))
       ELSE IF isInt /\ parsed = None THEN PanicBase
       ELSE IF StartsWith(text, KwInt) THEN Ok(BaseType("SizedInt", size))
       ELSE IF StartsWith(text, KwBit) THEN Ok(BaseType("SizedBit", size))
       ELSE IF StartsWith(text, KwVarbit) THEN Ok(BaseType("SizedVarbit", size))
       ELSE Err

\* TreesitterTranslator::parse_base_type
parse_base_type(node, source_code) ==
    LET text == Trim(get_node_text(node, source_code))
        child == named_child(node, 0)
        isInt == child[1].kind = "integer"
        parsed == parse_u32(get_node_text(child[1], source_code))
        size == IF isInt THEN Some(parsed[1]) ELSE None
    IN IF text = KwBool THEN Ok(BaseType("Bool", None))
       ELSE IF text = KwInt THEN Ok(BaseType("Int", None))
       ELSE IF text = KwBit THEN Ok(BaseType("Bit", None))
       ELSE IF text = KwString THEN Ok(BaseType("String", None))
       ELSE IF text = KwVarbit THEN Ok(BaseType("Varbit", None))
       ELSE IF text = KwError THEN Ok(BaseType("Error", None))
       ELSE IF text = KwMatchKind THEN Ok(BaseType("MatchKind", None))
       ELSE IF child = None THEN PanicBase
       ELSE IF isInt /\ parsed = None THEN PanicBase
       ELSE IF StartsWith(text, KwInt) THEN Ok(BaseType("SizedInt", size))
       ELSE IF StartsWith(text, KwBit) THEN Ok(BaseType("SizedBit", size))
       ELSE IF StartsWith(text, KwVarbit) THEN Ok(BaseType("SizedVarbit", size))
       ELSE Err

\* The outcome of a parse_* method: the arena and the new node's id, or a
\* panic (which unwinds out of translate and drops the arena).
Built(arena, id) == [panic |-> FALSE, arena |-> arena, id |-> id]
Panicked == [panic |-> TRUE, arena |-> <<>>, id |-> 0]

\* TreesitterTranslator::parse_type
parse_type(arena, node, source_code) ==
    LET child == named_child(node, 0)
        base == parse_base_type(child[1], source_code)
        a1 == new_node(arena, Node(NodeKindType(TypeBase(base.val)), node, source_code))
    IN IF child = None THEN Panicked
       ELSE IF child[1].kind = "base_type"
            THEN IF base.st = "Ok" THEN Built(a1, Len(a1)) ELSE Panicked
       ELSE Panicked

\* A name node whose columns are taken from the byte offsets.
parse_name_byte_columns(arena, node, source_code) ==
    LET a1 == new_node(arena,
                 [kind |-> NodeKind("Name"),
                  range |-> [start |-> [line |-> node.sp[1], character |-> node.sb],
                             end |-> [line |-> node.ep[1], character |-> node.eb]],
                  content |-> get_node_text(node, source_code)])
    IN Built(a1, Len(a1))

\* TreesitterTranslator::parse_name
parse_name(arena, node, source_code) ==
    LET a1 == new_node(arena, Node(NodeKind("Name"), node, source_code))
    IN Built(a1, Len(a1))

\* A declaration whose name is linked before its type.
parse_const_dec_name_first(arena, node, source_code) ==
    LET a1 == new_node(arena, Node(NodeKind("ConstantDec"), node, source_code))
        node_id == Len(a1)
        ty == child_by_field_name(node, "type")
        nm == child_by_field_name(node, "name")
        n == parse_name(a1, nm[1], source_code)
        a2 == append(n.arena, node_id, n.id)
        t == parse_type(a2, ty[1], source_code)
        a3 == append(t.arena, node_id, t.id)
    IN IF ty = None \/ nm = None THEN Panicked
       ELSE IF t.panic THEN Panicked
       ELSE Built(a3, node_id)

\* TreesitterTranslator::parse_const_dec
parse_const_dec(arena, node, source_code) ==
    LET a1 == new_node(arena, Node(NodeKind("ConstantDec"), node, source_code))
        node_id == Len(a1)
        ty == child_by_field_name(node, "type")
        t == parse_type(a1, ty[1], source_code)
        a2 == append(t.arena, node_id, t.id)
        nm == child_by_field_name(node, "name")
        n == parse_name(a2, nm[1], source_code)
        a3 == append(n.arena, node_id, n.id)
    IN IF ty = None THEN Panicked
       ELSE IF t.panic THEN Panicked
       ELSE IF nm = None THEN Panicked
       ELSE IF n.panic THEN Panicked
       ELSE Built(a3, node_id)

\* The loop of parse_root over the children of the root of the syntax tree.
RECURSIVE parse_root_children(_, _, _, _)
parse_root_children(arena, ast_root, children, source_code) ==
    IF children = <<>> THEN Built(arena, ast_root)
    ELSE LET child == children[1]
             new_child == parse_const_dec(arena, child, source_code)
         IN IF child.kind = "constant_declaration"
            THEN IF new_child.panic THEN Panicked
                 ELSE parse_root_children(append(new_child.arena, ast_root, new_child.id),
                                          ast_root, Tail(children), source_code)
            ELSE parse_root_children(arena, ast_root, Tail(children), source_code)

\* A root whose content is the text of the first statement.
parse_root_first_text(source_code, tree) ==
    LET a0 == new_node(<<>>, [kind |-> NodeKind("Root"),
                              range |-> ts_range_to_lsp_range(range(tree)),
                              content |-> IF tree.named = <<>> THEN source_code
                                          ELSE get_node_text(tree.named[1], source_code)])
    IN parse_root_children(a0, 1, tree.named, source_code)

\* TreesitterTranslator::parse_root
parse_root(source_code, tree) ==
    LET a0 == new_node(<<>>, [kind |-> NodeKind("Root"),
                              range |-> ts_range_to_lsp_range(range(tree)),
                              content |-> source_code])
    IN parse_root_children(a0, 1, tree.named, source_code)

\* TreesitterTranslator::translate: the Ast, or the panic that unwinds out.
translate(source_code, tree) ==
    LET r == parse_root(source_code, tree)
    IN IF r.panic THEN [st |-> "Panic", arena |-> <<>>, root_id |-> None]
       ELSE [st |-> "Ast", arena |-> r.arena, root_id |-> Some(r.id)]

NotTranslated == [st |-> "None", arena |-> <<>>, root_id |-> None]

\* ------------------------------------------------------------ the session
\* The handlers in flight at once, and the content changes of one did_change.
MaxProcs == 2
MaxChanges == 2

Procs == 1..MaxProcs

\* The .p4 files of the workspace directory and their text on disk.
TextA == LineBit16
TextB == LineInt
Urls == {"a.p4", "b.p4"}
Disk == [u \in Urls |-> IF u = "a.p4" THEN TextA ELSE TextB]
\* The documents a request may name: those, and one created after start-up.
RequestUrls == Urls \cup {"new.p4"}

\* lsp_types::Position and the points asked about: inside the first
\* declaration's type, and beyond the end of every document.
Position(l, c) == [line |-> l, character |-> c]
Positions == {Position(0, 7), Position(9, 0)}

\* TextDocumentContentChangeEvent: the whole text (range None), or a range
\* and the text that replaces it.
FullChange(text) == [range |-> None, text |-> text]
RangedChange(r, text) == [range |-> Some(r), text |-> text]
Changes == {FullChange(TextB),
            RangedChange([start |-> Position(0, 6), end |-> Position(0, 9)], KwVarbit)}
ChangeSeqs == UNION {[1..n -> Changes] : n \in 1..MaxChanges}

\* struct File
File(content, tree) == [content |-> content, tree |-> tree]

\* utils::pos_to_point
pos_to_point(pos) == <<pos.line, pos.character>>

PointLt(a, b) == a[1] < b[1] \/ (a[1] = b[1] /\ a[2] < b[2])
PointLeq(a, b) == a = b \/ PointLt(a, b)

\* Node::named_descendant_for_point_range(point, point): descend from the
\* node into the first child that ends after the point and starts at or
\* before it; the last node reached (the node itself if no child does).
RECURSIVE named_descendant_for_point(_, _)
named_descendant_for_point(node, point) ==
    LET ends == {i \in 1..Len(node.named) : PointLt(point, node.named[i].ep)}
        first == CHOOSE i \in ends : \A j \in ends : i <= j
    IN IF ends = {} \/ PointLt(point, node.named[first].sp) THEN node
       ELSE named_descendant_for_point(node.named[first], point)

\* The text of a document after the editor has replaced a range of it.
ByteOf(text, pos) ==
    LET segs == Segs(text, "\n", 0, 0, Len(text))
    IN IF pos.line + 1 > Len(segs) THEN Len(text)
       ELSE LET seg == segs[pos.line + 1]
            IN IF seg.sb + pos.character > seg.eb THEN seg.eb ELSE seg.sb + pos.character
ApplyEdit(text, change) ==
    IF change.range = None THEN change.text
    ELSE LET from == ByteOf(text, change.range[1].start)
             to == ByteOf(text, change.range[1].end)
         IN Slice(text, 0, from) \o change.text \o Slice(text, to, Len(text))

\* ------------------------------------------------------------------ state
VARIABLES
    source_code,    \* the text handed to translate
    ast,            \* what translate returned for it
    files,          \* ServerState.files: url -> Option<File>
    lock,           \* Backend.state: the handler holding the mutex, 0 if free
    poisoned,       \* the mutex's poison flag
    initialized,    \* whether the initialize request has been answered
    pc,             \* where each handler in flight is
    req,            \* the did_change a handler is working on
    reply,          \* what each handler last answered
    editor_text,    \* the text of each document in the editor
    scope_query,    \* the last subscope query on ast and what it returned
    symbols_query,  \* a SymbolTableQuery: what it answers at each position
    completion_list \* the last get_list call and what it returned

server_vars == <<files, lock, poisoned, initialized, pc, req, reply, editor_text>>
facade_vars == <<scope_query, symbols_query, completion_list>>
vars == <<source_code, ast, files, lock, poisoned, initialized, pc, req, reply, editor_text,
          scope_query, symbols_query, completion_list>>

NoReq == [uri |-> "", changes |-> <<>>, i |-> 0]
Reply(st, val) == [st |-> st, val |-> val]

InitServer ==
    /\ files = [u \in RequestUrls |-> None]
    /\ lock = 0
    /\ poisoned = FALSE
    /\ initialized = FALSE
    /\ pc = [p \in Procs |-> "idle"]
    /\ req = [p \in Procs |-> NoReq]
    /\ reply = [p \in Procs |-> Reply("none", <<>>)]
    /\ editor_text = Disk

\* No facade query and no completion request has been made.
NoQuery == [node_id |-> 0, arena |-> <<>>, ids |-> None, visits |-> None]
NoSymbols == [pos \in Positions |-> None]
NoList == [asked |-> FALSE, position |-> Position(0, 0), val |-> None]
InitFacade ==
    /\ scope_query = NoQuery
    /\ symbols_query = NoSymbols
    /\ completion_list = NoList

InitTranslate ==
    /\ source_code \in {JoinLines(ls) : ls \in LineSeqs}
    /\ ast = NotTranslated
    /\ InitServer
    /\ InitFacade

\* Ast::new: parse the text and translate the tree.
Translate ==
    /\ ast.st = "None"
    /\ ast' = translate(source_code, Parse(source_code))
    /\ UNCHANGED <<source_code, server_vars, facade_vars>>

NextTranslate == Translate

SpecTranslate == InitTranslate /\ [][NextTranslate]_vars

\* A panic while the guard is held: unwinding drops the guard, which
\* poisons and releases the mutex.
PanicHolding(p) ==
    /\ lock' = 0
    /\ poisoned' = TRUE
    /\ pc' = [pc EXCEPT ![p] = "idle"]
    /\ req' = [req EXCEPT ![p] = NoReq]
    /\ reply' = [reply EXCEPT ![p] = Reply("panic", <<>>)]

\* self.state.lock().unwrap(): wait for the mutex; a poisoned mutex gives
\* Err, unwrap panics and the guard inside the error is dropped.
Acquire(p, next) ==
    /\ pc[p] = "idle"
    /\ lock = 0
    /\ IF poisoned
       THEN /\ reply' = [reply EXCEPT ![p] = Reply("panic", <<>>)]
            /\ UNCHANGED <<lock, pc>>
       ELSE /\ lock' = p
            /\ pc' = [pc EXCEPT ![p] = next]
            /\ UNCHANGED reply

\* A lock() that does not wait for the holder.
AcquireNoWait(p, next) ==
    /\ pc[p] = "idle"
    /\ IF poisoned
       THEN /\ reply' = [reply EXCEPT ![p] = Reply("panic", <<>>)]
            /\ UNCHANGED <<lock, pc>>
       ELSE /\ lock' = p
            /\ pc' = [pc EXCEPT ![p] = next]
            /\ UNCHANGED reply

\* Backend::initialize, line 33
InitializeLock(p) ==
    /\ ~initialized
    /\ Acquire(p, "initialize")
    /\ UNCHANGED <<facade_vars, source_code, ast, files, poisoned, initialized, req, editor_text>>

\* Backend::initialize, lines 35-70: every .p4 file of the root directory is
\* read, parsed and inserted.
InitializeBody(p, root_uri) ==
    /\ pc[p] = "initialize"
    /\ IF root_uri = None
       THEN /\ PanicHolding(p)
            /\ UNCHANGED <<files, initialized>>
       ELSE /\ files' = [u \in RequestUrls |->
                            IF u \in Urls THEN Some(File(Disk[u], Some(Parse(Disk[u]))))
                            ELSE files[u]]
            /\ initialized' = TRUE
            /\ lock' = 0
            /\ pc' = [pc EXCEPT ![p] = "idle"]
            /\ reply' = [reply EXCEPT ![p] = Reply("capabilities", <<>>)]
            /\ UNCHANGED <<poisoned, req>>
    /\ UNCHANGED <<facade_vars, source_code, ast, editor_text>>

\* Backend::completion: no lock, a fixed answer.
Completion(p) ==
    /\ initialized
    /\ pc[p] = "idle"
    /\ reply' = [reply EXCEPT ![p] = Reply("items", <<"Hello", "Bye">>)]
    /\ UNCHANGED <<facade_vars, source_code, ast, files, lock, poisoned, initialized, pc, req, editor_text>>

\* Backend::hover, line 93
HoverLockNoWait(p) ==
    /\ initialized
    /\ AcquireNoWait(p, "hover")
    /\ UNCHANGED <<facade_vars, source_code, ast, files, poisoned, initialized, req, editor_text>>

HoverLock(p) ==
    /\ initialized
    /\ Acquire(p, "hover")
    /\ UNCHANGED <<facade_vars, source_code, ast, files, poisoned, initialized, req, editor_text>>

\* Backend::hover, lines 95-111
HoverBody(p, file_uri, position) ==
    /\ pc[p] = "hover"
    /\ LET file == files[file_uri]
           tree == file[1].tree
           info == named_descendant_for_point(tree[1], pos_to_point(position)).kind
       IN IF file = None \/ tree = None
          THEN PanicHolding(p)
          ELSE /\ lock' = 0
               /\ pc' = [pc EXCEPT ![p] = "idle"]
               /\ reply' = [reply EXCEPT ![p] = Reply("hover", info)]
               /\ UNCHANGED <<poisoned, req>>
    /\ UNCHANGED <<facade_vars, source_code, ast, files, initialized, editor_text>>

\* Backend::did_change, lines 115-117
DidChangeLock(p, file_uri, content_changes) ==
    /\ initialized
    /\ Acquire(p, "did_change")
    /\ req' = [req EXCEPT ![p] =
                  IF poisoned THEN NoReq
                  ELSE [uri |-> file_uri, changes |-> content_changes, i |-> 0]]
    /\ UNCHANGED <<facade_vars, source_code, ast, files, poisoned, initialized, editor_text>>

\* Backend::did_change, lines 119-139: one turn of the loop over the content
\* changes.  A ranged change panics on the todo!() of its InputEdit (or on
\* the lookup of an unknown document before it); a full-text change stores
\* the tree of the new text.
DidChangeStep(p) ==
    /\ pc[p] = "did_change"
    /\ req[p].i < Len(req[p].changes)
    /\ LET change == req[p].changes[req[p].i + 1]
           uri == req[p].uri
           new_tree == Some(Parse(change.text))
       IN /\ editor_text' = IF uri \in Urls
                            THEN [editor_text EXCEPT ![uri] = ApplyEdit(@, change)]
                            ELSE editor_text
          /\ IF change.range # None \/ files[uri] = None
             THEN /\ PanicHolding(p)
                  /\ UNCHANGED files
             ELSE /\ files' = [files EXCEPT ![uri] = Some([@[1] EXCEPT !.tree = new_tree])]
                  /\ req' = [req EXCEPT ![p].i = @ + 1]
                  /\ UNCHANGED <<lock, poisoned, pc, reply>>
    /\ UNCHANGED <<facade_vars, source_code, ast, initialized>>

\* Backend::did_change, lines 141-142: the loop is over, the guard is dropped.
DidChangeReturn(p) ==
    /\ pc[p] = "did_change"
    /\ req[p].i = Len(req[p].changes)
    /\ lock' = 0
    /\ pc' = [pc EXCEPT ![p] = "idle"]
    /\ req' = [req EXCEPT ![p] = NoReq]
    /\ reply' = [reply EXCEPT ![p] = Reply("done", <<>>)]
    /\ UNCHANGED <<facade_vars, source_code, ast, files, poisoned, initialized, editor_text>>

Init ==
    /\ source_code = <<>>
    /\ ast = NotTranslated
    /\ InitServer
    /\ InitFacade

Next ==
    \E p \in Procs :
        \/ InitializeLock(p)
        \/ \E root_uri \in {None, Some("/ws")} : InitializeBody(p, root_uri)
        \/ Completion(p)
        \/ HoverLock(p)
        \/ \E u \in RequestUrls, pos \in Positions : HoverBody(p, u, pos)
        \/ \E u \in Urls, cs \in ChangeSeqs : DidChangeLock(p, u, cs)
        \/ DidChangeStep(p)
        \/ DidChangeReturn(p)

Spec == Init /\ [][Next]_vars

\* ------------------------------------------------- claims on the translator
Translated == ast.st # "None"
Arena == ast.arena
KindTags(ids) == [i \in 1..Len(ids) |-> Arena[ids[i]].data.kind.tag]
NodesOfKind(tag) == {i \in 1..Len(Arena) : Arena[i].data.kind.tag = tag}

\* The lines of the translated text, and where each begins.
SourceLines == LET segs == Segs(source_code, "\n", 0, 0, Len(source_code))
               IN [i \in 1..Len(segs) |-> Slice(source_code, segs[i].sb, segs[i].eb)]
HasLines == source_code # <<>>
AllLinesIn(S) == HasLines /\ \A i \in 1..Len(SourceLines) : SourceLines[i] \in S

\* What the constant declarations of the model are, read off their text: the
\* type token, the name and the classified type.
Decl(ty, nm, base) == [ty |-> ty, nm |-> nm, base |-> base]
Reference(line) ==
    IF line = LineBit16
    THEN Decl(<<"b", "i", "t", "<", "1", "6", ">">>,
              <<"T", "Y", "P", "E", "_", "I", "P", "V", "4">>, BaseType("SizedBit", Some(16)))
    ELSE IF line = LineInt
    THEN Decl(<<"i", "n", "t">>, <<"A">>, BaseType("Int", None))
    ELSE IF line = LineVarbit
    THEN Decl(<<"v", "a", "r", "b", "i", "t", "<", "8", ">">>, <<"V">>,
              BaseType("SizedVarbit", Some(8)))
    ELSE Decl(<<"i", "n", "t", "<", "(", "W", ")", ">">>, <<"E">>, BaseType("SizedInt", None))

Span(row, from, to) == [start |-> [line |-> row, character |-> from],
                        end |-> [line |-> row, character |-> to]]

\* The arena the test test_const_declaration builds by hand, for a document
\* of the lines ls: Root, then per declaration ConstantDec, Type, Name.
ReferenceArena(ls) ==
    LET n == Len(ls)
        decl(i) == Reference(ls[i])
        tyEnd(i) == 6 + Len(decl(i).ty)
        node(k) ==
            IF k = 1
            THEN [data |-> [kind |-> NodeKind("Root"),
                            range |-> [start |-> [line |-> 0, character |-> 0],
                                       end |-> [line |-> n - 1, character |-> Len(ls[n])]],
                            content |-> JoinLines(ls)],
                  parent |-> 0, children |-> [i \in 1..n |-> 3 * i - 1]]
            ELSE LET i == (k + 1) \div 3
                     r == (k + 1) % 3
                 IN IF r = 0
                    THEN [data |-> [kind |-> NodeKind("ConstantDec"),
                                    range |-> Span(i - 1, 0, Len(ls[i])),
                                    content |-> ls[i]],
                          parent |-> 1, children |-> <<k + 1, k + 2>>]
                    ELSE IF r = 1
                    THEN [data |-> [kind |-> NodeKindType(TypeBase(decl(i).base)),
                                    range |-> Span(i - 1, 6, tyEnd(i)),
                                    content |-> decl(i).ty],
                          parent |-> k - 1, children |-> <<>>]
                    ELSE [data |-> [kind |-> NodeKind("Name"),
                                    range |-> Span(i - 1, tyEnd(i) + 1,
                                                   tyEnd(i) + 1 + Len(decl(i).nm)),
                                    content |-> decl(i).nm],
                          parent |-> k - 2, children |-> <<>>]
    IN [k \in 1..(1 + 3 * n) |-> node(k)]

\* C1: translate is total; it never panics, and every construct it cannot
\* translate (a type shape other than base_type, a width that is no u32)
\* appears in the result as an Error node with the construct's text.
C1_TranslateTotal ==
    Translated =>
        /\ ast.st = "Ast"
        /\ \A i \in 1..Len(SourceLines) :
              SourceLines[i] \in {LineTypeName, LineBigWidth} =>
                 \E e \in NodesOfKind("Error") :
                    /\ Arena[e].data.range.start.line = i - 1
                    /\ Arena[e].data.content # <<>>

\* Three valid constant declarations and one invalid statement, in any order.
ThreeValidOneInvalid ==
    /\ Len(SourceLines) = 4
    /\ Cardinality({i \in 1..4 : SourceLines[i] = LineInvalid}) = 1
    /\ \A i \in 1..4 : SourceLines[i] \in BaseLines \cup {LineInvalid}

\* C2: error isolation; three valid declarations and one invalid statement
\* give three translated ConstantDec children and exactly one Error node.
C2_ErrorIsolation ==
    (Translated /\ ThreeValidOneInvalid) =>
        /\ ast.st = "Ast"
        /\ Cardinality(NodesOfKind("ConstantDec")) = 3
        /\ \A d \in NodesOfKind("ConstantDec") : KindTags(Arena[d].children) = <<"Type", "Name">>
        /\ Cardinality(NodesOfKind("Error")) = 1

TypeKindsOf(line) ==
    {Arena[Arena[d].children[1]].data.kind :
        d \in {d \in NodesOfKind("ConstantDec") :
                 Arena[d].data.content = line /\ Arena[d].children # <<>>}}

\* C4 as stated: a constant of bare `int` type has the Type child
\* Base(SizedInt(None)).
C4_BareIntIsSizedIntNone ==
    (Translated /\ AllLinesIn(BaseLines) /\ \E i \in 1..Len(SourceLines) : SourceLines[i] = LineInt) =>
        /\ ast.st = "Ast"
        /\ TypeKindsOf(LineInt) = {NodeKindType(TypeBase(BaseType("SizedInt", None)))}

\* C4, amended: a constant of bare `int` type has the Type child Base(Int);
\* the exact keyword match comes before the sized classification.
C4_BareIntIsInt ==
    (Translated /\ AllLinesIn(BaseLines) /\ \E i \in 1..Len(SourceLines) : SourceLines[i] = LineInt) =>
        /\ ast.st = "Ast"
        /\ TypeKindsOf(LineInt) = {NodeKindType(TypeBase(BaseType("Int", None)))}

C4_Witness ==
    /\ ast.st = "Ast"
    /\ source_code = LineInt
    /\ Arena[3].data.kind = NodeKindType(TypeBase(BaseType("Int", None)))

PosLeq(p, q) == p.line < q.line \/ (p.line = q.line /\ p.character <= q.character)
RangeInside(inner, outer) ==
    /\ PosLeq(outer.start, inner.start)
    /\ PosLeq(inner.start, inner.end)
    /\ PosLeq(inner.end, outer.end)

\* C10: range containment; in every Ast translate produces, the range of
\* each child lies inside the range of its parent.
C10_RangeContainment ==
    ast.st = "Ast" =>
        \A k \in 1..Len(Arena) : \A j \in 1..Len(Arena[k].children) :
            RangeInside(Arena[Arena[k].children[j]].data.range, Arena[k].data.range)

C10_Witness ==
    /\ ast.st = "Ast"
    /\ Len(Arena[1].children) >= 2
    /\ \E d \in NodesOfKind("ConstantDec") :
          /\ Arena[d].data.range.start.line > 0
          /\ Len(Arena[d].children) = 2

\* --------------------------------------------------- claims on the session
InDidChange(u) == \E p \in Procs : pc[p] = "did_change" /\ req[p].uri = u

\* C6: edit monotonicity; once the edits delivered for a document have been
\* handled, its stored tree is the from-scratch parse of the edited text,
\* so a query sees what a full re-parse would give.
C6_EditMonotonicity ==
    \A u \in Urls :
        (files[u] # None /\ ~InDidChange(u)) =>
            files[u][1].tree = Some(Parse(editor_text[u]))

\* C7: mutual exclusion; a handler reads or changes the document map only
\* while it holds the lock, at most one handler holds it, a handler that has
\* returned holds nothing, and no hover reads the map while a did_change is
\* part-way through its content changes.
C7_MutualExclusion ==
    /\ \A p \in Procs : pc[p] \in {"initialize", "hover", "did_change"} <=> lock = p
    /\ \A p, q \in Procs : (pc[p] # "idle" /\ pc[q] # "idle") => p = q
    /\ \A p, q \in Procs : pc[p] = "hover" => pc[q] # "did_change"

C7_Witness ==
    \E p, q \in Procs :
        /\ p # q
        /\ pc[p] = "did_change"
        /\ req[p].i = 1
        /\ Len(req[p].changes) = 2
        /\ reply[q].st = "hover"

\* C8: no request aborts the session; once the server is initialized no
\* handler panics (a hover that cannot be answered gives an empty result)
\* and the lock stays usable for every later request.
C8_NoRequestAborts ==
    initialized =>
        /\ ~poisoned
        /\ \A p \in Procs : reply[p].st # "panic"

\* C9: when the loop of a did_change has applied a full-text change, the
\* document's stored text is the new text and its stored tree is the parse
\* of that text.
C9_FullChangeReplaces ==
    \A p \in Procs :
        (pc[p] = "did_change" /\ req[p].i = Len(req[p].changes)) =>
            LET change == req[p].changes[req[p].i]
                file == files[req[p].uri]
            IN /\ file # None
               /\ file[1].content = change.text
               /\ file[1].tree = Some(Parse(file[1].content))

\* ------------------------------------------------------------- the facade
\* The nodes of an arena built by hand, and the kinds its children take:
\* the three scope kinds, a declaration and a type.
MaxNodes == 4
ChildKinds == {NodeKind("Root"), NodeKind("ParserDec"), NodeKind("Body"),
               NodeKind("ConstantDec"),
               NodeKindType(TypeBase(BaseType("Int", None)))}
NodeOfKind(kind) == [kind |-> kind, range |-> Span(0, 0, 0), content |-> <<>>]

\* An arena under construction, before Ast::initialize takes it.
Building(arena) == [st |-> "Arena", arena |-> arena, root_id |-> None]
\* Ast::initialize
initialize(arena, root_id) == [st |-> "Ast", arena |-> arena, root_id |-> Some(root_id)]

\* impl Visitable for Ast
get_node(a, node_id) == a.arena[node_id].data
get_child_ids(a, node_id) == a.arena[node_id].children
get_subscope_ids(a, node_id) ==
    SelectSeq(get_child_ids(a, node_id),
              LAMBDA id : is_scope_node(get_node(a, id).kind))

\* VisitNode::new and impl TrueVisitable for VisitNode
VisitNode(arena, node_id) == [arena |-> arena, id |-> node_id]
get(v) == v.arena[v.id].data
get_children(v) ==
    LET ids == v.arena[v.id].children
    IN [i \in 1..Len(ids) |-> VisitNode(v.arena, ids[i])]
get_subscopes(v) ==
    SelectSeq(get_children(v), LAMBDA child : is_scope_node(get(child).kind))

InitAst ==
    /\ source_code = <<>>
    /\ ast = Building(new_node(<<>>, NodeOfKind(NodeKind("Root"))))
    /\ InitServer
    /\ InitFacade

\* arena.new_node(Node {..}) followed by parent.append(child, &mut arena).
AddChild(parent_id, kind) ==
    /\ ast.st = "Arena"
    /\ Len(ast.arena) < MaxNodes
    /\ parent_id \in 1..Len(ast.arena)
    /\ ast' = Building(append(new_node(ast.arena, NodeOfKind(kind)),
                              parent_id, Len(ast.arena) + 1))
    /\ UNCHANGED <<source_code, server_vars, facade_vars>>

\* Ast::initialize(arena, root)
Initialize ==
    /\ ast.st = "Arena"
    /\ ast' = initialize(ast.arena, 1)
    /\ UNCHANGED <<source_code, server_vars, facade_vars>>

\* ast.get_subscope_ids(node_id)
GetSubscopeIds(node_id) ==
    /\ ast.st = "Ast"
    /\ node_id \in 1..Len(ast.arena)
    /\ scope_query' =
         [node_id |-> node_id,
          arena |-> ast.arena,
          ids |-> Some(get_subscope_ids(ast, node_id)),
          visits |-> IF scope_query.node_id = node_id
                     THEN scope_query.visits ELSE None]
    /\ UNCHANGED <<source_code, ast, server_vars, symbols_query, completion_list>>

\* VisitNode::new(&ast.arena, node_id).get_subscopes()
GetSubscopes(node_id) ==
    /\ ast.st = "Ast"
    /\ node_id \in 1..Len(ast.arena)
    /\ scope_query' =
         [node_id |-> node_id,
          arena |-> ast.arena,
          ids |-> IF scope_query.node_id = node_id
                  THEN scope_query.ids ELSE None,
          visits |-> Some(get_subscopes(VisitNode(ast.arena, node_id)))]
    /\ UNCHANGED <<source_code, ast, server_vars, symbols_query, completion_list>>

NextAst ==
    \/ \E parent_id \in 1..MaxNodes, kind \in ChildKinds : AddChild(parent_id, kind)
    \/ Initialize
    \/ \E node_id \in 1..MaxNodes : GetSubscopeIds(node_id)
    \/ \E node_id \in 1..MaxNodes : GetSubscopes(node_id)

SpecAst == InitAst /\ [][NextAst]_vars

\* ---------------------------------------------------- claims on the facade
ScopeTags == {"Root", "ParserDec", "Body"}
IsScopeChild(id) == Arena[id].data.kind.tag \in ScopeTags
VisitIds(visits) == [i \in 1..Len(visits) |-> visits[i].id]

\* ids are direct children of node n that are scopes, every scope child of n
\* is among them, and they stand in the order the children stand in.
ExactlyTheScopeChildren(ids, n) ==
    LET children == Arena[n].children
    IN /\ \A i \in 1..Len(ids) :
            /\ \E j \in 1..Len(children) : children[j] = ids[i]
            /\ IsScopeChild(ids[i])
       /\ \A j \in 1..Len(children) :
            IsScopeChild(children[j]) => \E i \in 1..Len(ids) : ids[i] = children[j]
       /\ \A i1, i2 \in 1..Len(ids) :
            i1 < i2 => \E j1, j2 \in 1..Len(children) :
                          /\ j1 < j2
                          /\ children[j1] = ids[i1]
                          /\ children[j2] = ids[i2]

\* C11: for every node handle, get_subscope_ids and get_subscopes return
\* exactly the direct children of kind Root, ParserDec or Body, in child
\* order, none added and none omitted; the two return the same nodes and the
\* arena is as it was before the query.
C11_SubscopesExact ==
    scope_query.node_id # 0 =>
        /\ scope_query.arena = Arena
        /\ scope_query.ids # None =>
               ExactlyTheScopeChildren(scope_query.ids[1], scope_query.node_id)
        /\ scope_query.visits # None =>
               /\ ExactlyTheScopeChildren(VisitIds(scope_query.visits[1]),
                                          scope_query.node_id)
               /\ \A i \in 1..Len(scope_query.visits[1]) :
                      scope_query.visits[1][i].arena = Arena
        /\ (scope_query.ids # None /\ scope_query.visits # None) =>
               VisitIds(scope_query.visits[1]) = scope_query.ids[1]

\* Both queries were made on a node with two scope children and a child
\* that is no scope between them.
C11_Witness ==
    /\ scope_query.node_id # 0
    /\ scope_query.ids # None
    /\ scope_query.visits # None
    /\ Len(scope_query.ids[1]) = 2
    /\ \E j \in 1..Len(Arena[scope_query.node_id].children) :
           LET c == Arena[scope_query.node_id].children[j]
           IN /\ ~IsScopeChild(c)
              /\ scope_query.ids[1][1] < c
              /\ c < scope_query.ids[1][2]

\* ------------------------------------------------------------- completion
\* The symbols one query answers with, over all four buckets together.
MaxSymbols == 5
SymbolNames == {<<"x">>, <<"y">>}

\* Symbol and Symbols of the symbol table; a bucket is a Vec<Symbol>.
Symbol(name) == [name |-> name]
get_name(symbol) == symbol.name
BucketsOfLen(n) == [1..n -> {Symbol(name) : name \in SymbolNames}]
SymbolsOfLens(nt, nc, nv, nf) ==
    [types : BucketsOfLen(nt), constants : BucketsOfLen(nc),
     variables : BucketsOfLen(nv), functions : BucketsOfLen(nf)]
AllSymbols ==
    UNION {SymbolsOfLens(nt, nc, nv, nf) :
           <<nt, nc, nv, nf>> \in
               {l \in (0..MaxSymbols) \X (0..MaxSymbols) \X (0..MaxSymbols)
                        \X (0..MaxSymbols) :
                    l[1] + l[2] + l[3] + l[4] <= MaxSymbols}}

\* A SymbolTableQuery: its answer inside the document is none or the visible
\* symbols; beyond the end of the document no scope contains the position.
Queries ==
    {[pos \in Positions |-> IF pos = Position(0, 7) THEN answer ELSE None] :
        answer \in {None} \cup {Some(symbols) : symbols \in AllSymbols}}
get_symbols_at_pos(query, position) == query[position]

\* lsp_types::CompletionItem { label, kind: Some(..), ..Default::default() }
CompletionItem(label, kind) == [label |-> label, kind |-> Some(kind)]

\* struct CompletionBuilder
CompletionBuilder_new == [items |-> <<>>]
add_deduplicated(self, new_items, completion_type) ==
    LET Fresh(i) == /\ \A j \in 1..Len(self.items) : self.items[j].label # new_items[i]
                    /\ \A j \in 1..(i - 1) : new_items[j] # new_items[i]
        kept == SelectSeq([i \in 1..Len(new_items) |-> i], Fresh)
    IN [items |-> self.items \o
                  [i \in 1..Len(kept) |-> CompletionItem(new_items[kept[i]], completion_type)]]
add(self, new_items, completion_type) ==
    [items |-> self.items \o
               [i \in 1..Len(new_items) |-> CompletionItem(new_items[i], completion_type)]]
build(self) == self.items

\* symbols.<bucket>.iter().map(|s| s.get_name()).collect()
NamesOf(bucket) == [i \in 1..Len(bucket) |-> get_name(bucket[i])]

get_list(position, query) ==
    LET answer == get_symbols_at_pos(query, position)
    IN IF answer = None THEN None
       ELSE LET symbols == answer[1]
                b1 == add(CompletionBuilder_new, NamesOf(symbols.types), "TYPE_PARAMETER")
                b2 == add(b1, NamesOf(symbols.constants), "CONSTANT")
                b3 == add(b2, NamesOf(symbols.variables), "VARIABLE")
                b4 == add(b3, NamesOf(symbols.functions), "FUNCTION")
            IN Some(build(b4))

InitCompletion ==
    /\ source_code = <<>>
    /\ ast = NotTranslated
    /\ InitServer
    /\ scope_query = NoQuery
    /\ symbols_query \in Queries
    /\ completion_list = NoList

\* completion::get_list(position, &query)
GetList(position) ==
    /\ completion_list' = [asked |-> TRUE, position |-> position,
                           val |-> get_list(position, symbols_query)]
    /\ UNCHANGED <<source_code, ast, server_vars, scope_query, symbols_query>>

NextCompletion == \E position \in Positions : GetList(position)

SpecCompletion == InitCompletion /\ [][NextCompletion]_vars

\* ------------------------------------------------- claims on completion
\* C12: get_list answers None exactly when the query has no symbols at the
\* position; otherwise one item per symbol, the types first, then the
\* constants, the variables and the functions, each bucket in its own order,
\* labelled with the symbol's name and kind TYPE_PARAMETER, CONSTANT,
\* VARIABLE, FUNCTION, a name that occurs twice giving two items.
C12_CompletionList ==
    completion_list.asked =>
        LET answer == symbols_query[completion_list.position]
            val == completion_list.val
        IN /\ (val = None) <=> (answer = None)
           /\ answer # None =>
                LET sy == answer[1]
                    items == val[1]
                    nt == Len(sy.types)
                    nc == Len(sy.constants)
                    nv == Len(sy.variables)
                    nf == Len(sy.functions)
                IN /\ Len(items) = nt + nc + nv + nf
                   /\ \A i \in 1..nt :
                        items[i] = [label |-> sy.types[i].name,
                                    kind |-> Some("TYPE_PARAMETER")]
                   /\ \A i \in 1..nc :
                        items[nt + i] = [label |-> sy.constants[i].name,
                                         kind |-> Some("CONSTANT")]
                   /\ \A i \in 1..nv :
                        items[nt + nc + i] = [label |-> sy.variables[i].name,
                                              kind |-> Some("VARIABLE")]
                   /\ \A i \in 1..nf :
                        items[nt + nc + nv + i] = [label |-> sy.functions[i].name,
                                                   kind |-> Some("FUNCTION")]

\* A list was returned for symbols in all four buckets, one name standing
\* twice in the types.
C12_Witness ==
    /\ completion_list.asked
    /\ completion_list.val # None
    /\ LET sy == symbols_query[completion_list.position][1]
       IN /\ Len(sy.types) = 2
          /\ sy.types[1] = sy.types[2]
          /\ sy.constants # <<>>
          /\ sy.variables # <<>>
          /\ sy.functions # <<>>
          /\ sy.constants[1] = sy.types[1]
====
